---- MODULE Spec2Model ----
(***************************************************************************)
(* A model of transponder.py: Vehicle, Transponder and TrafficSystem.      *)
(*                                                                         *)
(* Numbers.  The program computes with floats; the model computes with     *)
(* exact fixed-point integers, so floating rounding error is abstracted:   *)
(*   time      in units of 1/TimeScale second,                             *)
(*   speed     in units of 1/SpeedScale km/h,                              *)
(*   position  in units of 1/PosScale km, PosScale = 3600*SpeedScale*      *)
(*             TimeScale, so that (speed/3600)*dt is the integer speed*dt. *)
(* A record holds round(speed, 2) as a count of 10^-2 km/h and             *)
(* round(position, 3) as a count of 10^-3 km.                              *)
(*                                                                         *)
(* Control.  The program is single-threaded: every call runs to completion.*)
(* add_vehicle and analyze are one action each.  simulate is one action    *)
(* per statement: the model keeps the position inside the running call     *)
(* (pc, the loop indices, the call's arguments and locals), and no other   *)
(* operation is enabled while it runs.                                     *)
(***************************************************************************)
EXTENDS Integers, Sequences, FiniteSets

VARIABLES
    heap,         \* the Vehicle objects, by object identity (allocation order)
    vehicles,     \* TrafficSystem.vehicles: references into heap
    transponders, \* TrafficSystem.transponders: each Transponder's .vehicle reference
    data_log,     \* TrafficSystem.data_log
    write_log,    \* TrafficSystem.write_log
    files,        \* the contents of csv_filename and json_filename on disk
    last_log,     \* the last message handed to logging at INFO level or above
    pc,           \* where the running call is; "idle" when none runs
    duration,     \* simulate's arguments and locals
    dt,
    realtime,
    steps,
    sim_time,
    k,            \* how many iterations of simulate's loop have finished
    i,            \* position of update_system's running for loop
    entry_len,    \* history: len(data_log) when the running simulate call began
    tick_trace,   \* history: what update_system has done in the tick being run
    calls,        \* history: the records the last analyze passed to the callback, until
                  \*          the next operation
    failed_at,    \* history: the first record on which that callback raised (0: none)
    snapshot,     \* history: the last transmit() made from outside simulate, as
                  \*          <<transponder, record>>, until the next operation
    n_calls       \* history: how many simulate calls have been made

sysVars   == <<heap, vehicles, transponders, data_log, write_log, n_calls>>
frameVars == <<duration, dt, realtime, steps, sim_time, k, i, entry_len, tick_trace>>
anaVars   == <<calls, failed_at, snapshot>>
vars == <<heap, vehicles, transponders, data_log, write_log, files, last_log, pc,
          duration, dt, realtime, steps, sim_time, k, i, entry_len, tick_trace,
          calls, failed_at, snapshot, n_calls>>

----------------------------------------------------------------------------
(* Bounds of the model and resolutions of its fixed-point numbers.         *)

MaxVehicles == 2      \* vehicles registered
MaxLog      == 4      \* records in data_log
MaxCalls    == 2      \* simulate calls
TimeScale   == 2      \* time units per second
SpeedScale  == 100    \* speed units per km/h

SecondsPerHour == 3600
SpeedDigits    == 2
PositionDigits == 3

SlowdownPeriod == 10
MaxChange      == 5

PosScale == SecondsPerHour * SpeedScale * TimeScale    \* position units per km

InitSpeeds == {30 * SpeedScale}
BehaviorSpeeds == {0 - 18 * SpeedScale}
Behaviors == {"none", "custom", "faulty"}
Durations == 1 .. MaxLog + 1            \* simulate's duration, in time units
Dts == {1, 2}                           \* simulate's dt, in time units
\* The simulate calls made: any duration with any dt, paced (realtime) when dt is 1.
SimulateArgs ==
    {<<dur, d, rt>> \in Durations \X Dts \X BOOLEAN : rt => d = 1}

\* The runs of the reference behavior random_slowdown: one slow vehicle,
\* simulated past the first period with a fractional dt and with dt = 1 s.
\* Changes are the values drawn from random.uniform(-MaxChange, MaxChange).
Changes == {0 - MaxChange * SpeedScale, 0 - 1, MaxChange * SpeedScale}
SlowSpeeds == {(MaxChange - 2) * SpeedScale}
SlowDuration == (SlowdownPeriod + 1) * TimeScale
SlowDts == {1, TimeScale}

\* What the export files hold before the system is constructed: the log of
\* an earlier run.
OldLog == <<[vehicle_id |-> 0, speed |-> 0, position |-> 0, time |-> 0]>>

----------------------------------------------------------------------------
(* Pure functions.                                                         *)

RECURSIVE Pow10(_)
Pow10(n) == IF n = 0 THEN 1 ELSE 10 * Pow10(n - 1)

\* Python's round(): the nearest multiple, a tie going to the even one.
\* The value rounded is num/den with den > 0; the result counts whole units.
RoundHalfEven(num, den) ==
    LET q == num \div den
        r == num % den
    IN  IF 2 * r < den THEN q
        ELSE IF 2 * r > den THEN q + 1
        ELSE IF q % 2 = 0 THEN q ELSE q + 1

\* Python's int() of the quotient a/b: truncation toward zero.
IntTrunc(a, b) ==
    LET n == IF a < 0 THEN 0 - a ELSE a
        d == IF b < 0 THEN 0 - b ELSE b
        q == n \div d
    IN  IF (a < 0) = (b < 0) THEN q ELSE 0 - q

\* Vehicle.__init__
NewVehicle(vehicle_id, speed, behavior) ==
    [vehicle_id |-> vehicle_id, speed |-> speed, position |-> 0, behavior |-> behavior]

Max(a, b) == IF a >= b THEN a ELSE b

\* random_slowdown(vehicle, dt, sim_time)
RandomSlowdownUnclamped(v, d, t) ==
    IF IntTrunc(t, TimeScale) % SlowdownPeriod = 0 /\ t > 0
    THEN {[speed |-> v.speed + change, exc |-> "none"] : change \in Changes}
    ELSE {[speed |-> v.speed, exc |-> "none"]}
RandomSlowdown(v, d, t) ==
    IF IntTrunc(t, TimeScale) % SlowdownPeriod = 0 /\ t > 0
    THEN {[speed |-> Max(0, v.speed + change), exc |-> "none"] : change \in Changes}
    ELSE {[speed |-> v.speed, exc |-> "none"]}

\* What one call self.behavior(self, dt, sim_time) may do: the speed it leaves
\* and the exception it raises ("none": it returns).  "custom" is a behavior
\* that returns, "faulty" one that raises on every call; either may have
\* changed the speed by then.
BehaviorOutcomes(v, d, t) ==
    CASE v.behavior = "none" ->
            {[speed |-> v.speed, exc |-> "none"]}
      [] v.behavior = "custom" ->
            {[speed |-> s, exc |-> "none"] : s \in {v.speed} \cup BehaviorSpeeds}
      [] v.behavior = "faulty" ->
            {[speed |-> s, exc |-> "Exception"] : s \in {v.speed} \cup BehaviorSpeeds}
      [] v.behavior = "random_slowdown" ->
            RandomSlowdown(v, d, t)

\* `except Exception` in Vehicle.update: which raised exceptions are caught.
CatchesNothing(exc) == FALSE
BehaviorCaught(exc) == exc = "Exception"

\* (speed / 3600.0) * dt, in position units.
PositionDelta(speed, d) == speed * d

\* self.position += (self.speed / 3600.0) * dt, with the speed the behavior left.
IntegrateOldSpeed(v, out, d) ==
    [v EXCEPT !.speed = out.speed, !.position = @ + PositionDelta(v.speed, d)]
IntegrateUnlessRaised(v, out, d) ==
    IF out.exc # "none"
    THEN [v EXCEPT !.speed = out.speed]
    ELSE [v EXCEPT !.speed = out.speed, !.position = @ + PositionDelta(out.speed, d)]
Integrate(v, out, d) ==
    [v EXCEPT !.speed = out.speed, !.position = @ + PositionDelta(out.speed, d)]

\* Transponder.transmit
Transmit(v) ==
    [vehicle_id |-> v.vehicle_id,
     speed      |-> RoundHalfEven(v.speed * Pow10(SpeedDigits), SpeedScale),
     position   |-> RoundHalfEven(v.position * Pow10(PositionDigits), PosScale)]

\* record['time'] = sim_time (d, the tick's dt, is not used)
StampAfter(rec, t, d) ==
    [f \in DOMAIN rec \cup {"time"} |-> IF f = "time" THEN t + d ELSE rec[f]]
StampNone(rec, t, d) == rec
Stamp(rec, t, d) ==
    [f \in DOMAIN rec \cup {"time"} |-> IF f = "time" THEN t ELSE rec[f]]

\* self.data_log.append(record)
Prepend(log, rec) == <<rec>> \o log
AppendRecord(log, rec) == Append(log, rec)

\* steps = int(duration / dt)
StepsCeil(dur, d) == IntTrunc(dur + d - 1, d)
StepsOf(dur, d) == IntTrunc(dur, d)

\* The CSV file: fieldnames = the first record's keys, in insertion order,
\* then one row per record.
CsvOf(log) ==
    [header |-> <<"vehicle_id", "speed", "position", "time">>,
     rows   |-> [n \in 1 .. Len(log) |->
                    <<log[n].vehicle_id, log[n].speed, log[n].position, log[n].time>>]]

\* The JSON file: the array of records.
JsonOf(log) == log

IsPrefix(s, t) == Len(s) <= Len(t) /\ SubSeq(t, 1, Len(s)) = s

----------------------------------------------------------------------------
(* Construction.                                                           *)

\* TrafficSystem.__init__; the export files exist already, left by an earlier run.
Init ==
    /\ heap = <<>>
    /\ vehicles = <<>>
    /\ transponders = <<>>
    /\ data_log = <<>>
    /\ write_log \in BOOLEAN
    /\ files = [csv |-> CsvOf(OldLog), json |-> JsonOf(OldLog)]
    /\ last_log = "none"
    /\ pc = "idle"
    /\ duration = 0 /\ dt = 0 /\ realtime = FALSE /\ steps = 0 /\ sim_time = 0
    /\ k = 0 /\ i = 0 /\ entry_len = 0 /\ tick_trace = <<>>
    /\ calls = <<>> /\ failed_at = 0 /\ snapshot = <<>>
    /\ n_calls = 0

\* The locals of a call are gone when it returns.
FrameCleared ==
    /\ duration' = 0 /\ dt' = 0 /\ realtime' = FALSE /\ steps' = 0 /\ sim_time' = 0
    /\ k' = 0 /\ i' = 0 /\ entry_len' = 0 /\ tick_trace' = <<>>

\* vehicle_id=f"Vehicle-{i+1}": the caller numbers the vehicles it constructs.
NextVehicleId == Len(heap) + 1

----------------------------------------------------------------------------
(* add_vehicle: a newly constructed Vehicle is registered.                 *)

\* list.append in add_vehicle: registration order is list order.
RegisterFront(list, x) == <<x>> \o list
Register(list, x) == Append(list, x)

\* Transponder(vehicle): the reference the new transponder holds.
TransponderOfFirst(o) == 1
NewTransponder(o) == o

AddVehicle(vehicle_id, speed, behavior) ==
    /\ pc = "idle"
    /\ Len(vehicles) < MaxVehicles
    /\ vehicle_id = NextVehicleId
    /\ heap' = Append(heap, NewVehicle(vehicle_id, speed, behavior))
    /\ vehicles' = Register(vehicles, Len(heap) + 1)
    /\ transponders' = Register(transponders, NewTransponder(Len(heap) + 1))
    /\ calls' = <<>> /\ failed_at' = 0 /\ snapshot' = <<>>
    /\ UNCHANGED <<data_log, write_log, files, last_log, pc, n_calls>>
    /\ UNCHANGED frameVars

----------------------------------------------------------------------------
(* simulate(duration, dt, realtime).                                       *)

\* An exception that nothing catches leaves the running call at once.
Escape ==
    /\ pc' = "idle"
    /\ FrameCleared
    /\ calls' = <<>> /\ failed_at' = 0 /\ snapshot' = <<>>
    /\ UNCHANGED <<sysVars, files, last_log>>

\* Lines 116-119: steps, sim_time, "Starting simulation".
SimulateCallFresh(dur, d, rt) ==
    /\ pc = "idle"
    /\ n_calls' = n_calls + 1
    /\ duration' = dur /\ dt' = d /\ realtime' = rt
    /\ steps' = StepsOf(dur, d)
    /\ sim_time' = 0
    /\ k' = 0 /\ i' = 0
    /\ entry_len' = Len(data_log)
    /\ tick_trace' = <<>>
    /\ last_log' = "Starting simulation"
    /\ pc' = "loop"
    /\ calls' = <<>> /\ failed_at' = 0 /\ snapshot' = <<>>
    /\ heap' = [o \in DOMAIN heap |-> [heap[o] EXCEPT !.position = 0]]
    /\ UNCHANGED <<vehicles, transponders, data_log, write_log, files>>
SimulateCall(dur, d, rt) ==
    /\ pc = "idle"
    /\ n_calls' = n_calls + 1
    /\ duration' = dur /\ dt' = d /\ realtime' = rt
    /\ steps' = StepsOf(dur, d)
    /\ sim_time' = 0
    /\ k' = 0 /\ i' = 0
    /\ entry_len' = Len(data_log)
    /\ tick_trace' = <<>>
    /\ last_log' = "Starting simulation"
    /\ pc' = "loop"
    /\ calls' = <<>> /\ failed_at' = 0 /\ snapshot' = <<>>
    /\ UNCHANGED <<heap, vehicles, transponders, data_log, write_log, files>>

\* The simulate calls of the model: at most MaxCalls, the log kept within MaxLog.
SimulateStart(dur, d, rt) ==
    /\ n_calls < MaxCalls
    /\ Len(data_log) + StepsOf(dur, d) * Len(vehicles) <= MaxLog
    /\ SimulateCall(dur, d, rt)

\* `for _ in range(steps)`: one more iteration, which calls update_system.
LoopEnter ==
    /\ pc = "loop" /\ k < steps
    /\ pc' = "update" /\ i' = 1 /\ tick_trace' = <<>>
    /\ UNCHANGED <<sysVars, files, last_log>>
    /\ UNCHANGED <<duration, dt, realtime, steps, sim_time, k, entry_len>>
    /\ UNCHANGED anaVars

\* The loop is over: "Simulation complete."
LoopExitEarly ==
    /\ pc = "loop" /\ (k >= steps \/ k >= 1)
    /\ pc' = "complete" /\ last_log' = "Simulation complete."
    /\ UNCHANGED <<sysVars, files>>
    /\ UNCHANGED frameVars
    /\ UNCHANGED anaVars
LoopExit ==
    /\ pc = "loop" /\ k >= steps
    /\ pc' = "complete" /\ last_log' = "Simulation complete."
    /\ UNCHANGED <<sysVars, files>>
    /\ UNCHANGED frameVars
    /\ UNCHANGED anaVars

\* `for v in self.vehicles: v.update(dt, sim_time)`, one vehicle.
UpdateVehicle ==
    /\ pc = "update" /\ i <= Len(vehicles)
    /\ \E out \in BehaviorOutcomes(heap[vehicles[i]], dt, sim_time) :
          IF out.exc # "none" /\ ~BehaviorCaught(out.exc)
          THEN Escape
          ELSE /\ heap' = [heap EXCEPT ![vehicles[i]] = Integrate(@, out, dt)]
               /\ last_log' = IF out.exc # "none" THEN "Behavior error" ELSE last_log
               /\ tick_trace' = Append(tick_trace, <<"update", vehicles[i]>>)
               /\ i' = i + 1
               /\ UNCHANGED <<vehicles, transponders, data_log, write_log, files, pc,
                              n_calls>>
               /\ UNCHANGED <<duration, dt, realtime, steps, sim_time, k, entry_len>>
               /\ UNCHANGED anaVars

\* The first for loop of update_system is over.
UpdateDoneEarly ==
    /\ pc = "update" /\ i > 1
    /\ pc' = "transmit" /\ i' = 1
    /\ UNCHANGED <<sysVars, files, last_log>>
    /\ UNCHANGED <<duration, dt, realtime, steps, sim_time, k, entry_len, tick_trace>>
    /\ UNCHANGED anaVars
UpdateDone ==
    /\ pc = "update" /\ i > Len(vehicles)
    /\ pc' = "transmit" /\ i' = 1
    /\ UNCHANGED <<sysVars, files, last_log>>
    /\ UNCHANGED <<duration, dt, realtime, steps, sim_time, k, entry_len, tick_trace>>
    /\ UNCHANGED anaVars

\* `for t in self.transponders`: transmit, stamp, append, one transponder.
TransmitRecord ==
    /\ pc = "transmit" /\ i <= Len(transponders)
    /\ data_log' = AppendRecord(data_log,
                       Stamp(Transmit(heap[transponders[i]]), sim_time, dt))
    /\ tick_trace' = Append(tick_trace, <<"record", transponders[i]>>)
    /\ i' = i + 1
    /\ UNCHANGED <<heap, vehicles, transponders, write_log, files, last_log, pc,
                   n_calls>>
    /\ UNCHANGED <<duration, dt, realtime, steps, sim_time, k, entry_len>>
    /\ UNCHANGED anaVars

\* update_system returns; `if realtime:`.
TransmitDoneSleepBetween ==
    /\ pc = "transmit" /\ i > Len(transponders)
    /\ pc' = IF realtime /\ k + 1 < steps THEN "sleep" ELSE "advance"
    /\ i' = 0
    /\ UNCHANGED <<sysVars, files, last_log>>
    /\ UNCHANGED <<duration, dt, realtime, steps, sim_time, k, entry_len, tick_trace>>
    /\ UNCHANGED anaVars
TransmitDone ==
    /\ pc = "transmit" /\ i > Len(transponders)
    /\ pc' = IF realtime THEN "sleep" ELSE "advance"
    /\ i' = 0
    /\ UNCHANGED <<sysVars, files, last_log>>
    /\ UNCHANGED <<duration, dt, realtime, steps, sim_time, k, entry_len, tick_trace>>
    /\ UNCHANGED anaVars

\* time.sleep(dt)
Sleep ==
    /\ pc = "sleep"
    /\ pc' = "advance"
    /\ UNCHANGED <<sysVars, files, last_log>>
    /\ UNCHANGED frameVars
    /\ UNCHANGED anaVars

\* sim_time += dt, and back to the loop head.
Advance ==
    /\ pc = "advance"
    /\ sim_time' = sim_time + dt
    /\ k' = k + 1
    /\ tick_trace' = <<>>
    /\ pc' = "loop"
    /\ UNCHANGED <<sysVars, files, last_log>>
    /\ UNCHANGED <<duration, dt, realtime, steps, i, entry_len>>
    /\ UNCHANGED anaVars

\* `if self.write_log:` is false: simulate returns.
ExportAnyway ==
    /\ pc = "complete" /\ ~write_log
    /\ files' = [csv |-> CsvOf(data_log), json |-> JsonOf(data_log)]
    /\ last_log' = "Data log written to JSON"
    /\ pc' = "idle"
    /\ FrameCleared
    /\ UNCHANGED sysVars
    /\ UNCHANGED anaVars
NoExport ==
    /\ pc = "complete" /\ ~write_log
    /\ pc' = "idle"
    /\ FrameCleared
    /\ UNCHANGED <<sysVars, files, last_log>>
    /\ UNCHANGED anaVars

\* _export_logs with an empty log: "No data to export."
ExportEmptyFiles ==
    /\ pc = "complete" /\ write_log
    /\ data_log = <<>>
    /\ files' = [csv |-> CsvOf(data_log), json |-> JsonOf(data_log)]
    /\ last_log' = "No data to export."
    /\ pc' = "idle"
    /\ FrameCleared
    /\ UNCHANGED sysVars
    /\ UNCHANGED anaVars
ExportSkip ==
    /\ pc = "complete" /\ write_log
    /\ data_log = <<>>
    /\ last_log' = "No data to export."
    /\ pc' = "idle"
    /\ FrameCleared
    /\ UNCHANGED <<sysVars, files>>
    /\ UNCHANGED anaVars

\* _export_logs: both files are written anew.
ExportThisCall ==
    /\ pc = "complete" /\ write_log
    /\ data_log # <<>>
    /\ LET appended == SubSeq(data_log, entry_len + 1, Len(data_log))
       IN  files' = [csv |-> CsvOf(appended), json |-> JsonOf(appended)]
    /\ last_log' = "Data log written to JSON"
    /\ pc' = "idle"
    /\ FrameCleared
    /\ UNCHANGED sysVars
    /\ UNCHANGED anaVars
ExportLogs ==
    /\ pc = "complete" /\ write_log
    /\ data_log # <<>>
    /\ files' = [csv |-> CsvOf(data_log), json |-> JsonOf(data_log)]
    /\ last_log' = "Data log written to JSON"
    /\ pc' = "idle"
    /\ FrameCleared
    /\ UNCHANGED sysVars
    /\ UNCHANGED anaVars

----------------------------------------------------------------------------
(* analyze(callback).                                                      *)

\* `except Exception` in analyze: which raised exceptions are caught.
CallbackCaught(exc) == exc = "Exception"

\* `for record in self.data_log: try: callback(record) except ...`, from
\* record n on: the records the callback has been called with when the scan
\* ends.  The callback raises on the records whose index is in raising; an
\* exception that is not caught ends the scan there.
RECURSIVE Scan(_, _, _, _)
Scan(log, n, raising, passed) ==
    IF n > Len(log) THEN passed
    ELSE IF n \in raising /\ ~CallbackCaught("Exception") THEN Append(passed, log[n])
    ELSE Scan(log, n + 1, raising, Append(passed, log[n]))

\* The callbacks tried: one that returns, one that raises on the first record
\* only, one that raises on every record.
CallbackFailures(log) == {{}, {1} \cap DOMAIN log, DOMAIN log}

Min(S) == CHOOSE x \in S : \A y \in S : x <= y

Analyze(raising) ==
    /\ pc = "idle"
    /\ calls' = Scan(data_log, 1, raising, <<>>)
    /\ failed_at' = IF raising = {} THEN 0 ELSE Min(raising)
    /\ last_log' = IF raising = {} THEN last_log ELSE "Analysis callback error"
    /\ snapshot' = <<>>
    /\ UNCHANGED <<sysVars, files, pc>>
    /\ UNCHANGED frameVars

----------------------------------------------------------------------------
(* Transponder.transmit, called from outside simulate.                     *)

\* t.transmit() for the n-th transponder: a new record is returned, nothing is
\* written.
SnapshotInPlace(n) ==
    /\ pc = "idle"
    /\ n \in DOMAIN transponders
    /\ snapshot' = <<n, Transmit(heap[transponders[n]])>>
    /\ LET v == heap[transponders[n]]
       IN  heap' = [heap EXCEPT ![transponders[n]] =
                       [v EXCEPT !.speed = (Transmit(v).speed * SpeedScale)
                                               \div Pow10(SpeedDigits),
                                 !.position = Transmit(v).position
                                               * (PosScale \div Pow10(PositionDigits))]]
    /\ calls' = <<>> /\ failed_at' = 0
    /\ UNCHANGED <<vehicles, transponders, data_log, write_log, n_calls, files,
                   last_log, pc>>
    /\ UNCHANGED frameVars
Snapshot(n) ==
    /\ pc = "idle"
    /\ n \in DOMAIN transponders
    /\ snapshot' = <<n, Transmit(heap[transponders[n]])>>
    /\ calls' = <<>> /\ failed_at' = 0
    /\ UNCHANGED <<sysVars, files, last_log, pc>>
    /\ UNCHANGED frameVars

----------------------------------------------------------------------------

Next ==
    \/ \E id \in {NextVehicleId}, s \in InitSpeeds, b \in Behaviors : AddVehicle(id, s, b)
    \/ \E args \in SimulateArgs : SimulateStart(args[1], args[2], args[3])
    \/ LoopEnter
    \/ LoopExit
    \/ UpdateVehicle
    \/ UpdateDone
    \/ TransmitRecord
    \/ TransmitDone
    \/ Sleep
    \/ Advance
    \/ NoExport
    \/ ExportSkip
    \/ ExportLogs
    \/ \E raising \in CallbackFailures(data_log) : Analyze(raising)

Spec == Init /\ [][Next]_vars

\* One run of random_slowdown: a system that does not export, one vehicle
\* with that behavior, one simulate call of SlowDuration.
SlowInit == Init /\ ~write_log
SlowNext ==
    \/ \E speed \in SlowSpeeds :
          vehicles = <<>> /\ AddVehicle(NextVehicleId, speed, "random_slowdown")
    \/ \E d \in SlowDts :
          vehicles # <<>> /\ n_calls = 0 /\ SimulateCall(SlowDuration, d, FALSE)
    \/ LoopEnter
    \/ LoopExit
    \/ UpdateVehicle
    \/ UpdateDone
    \/ TransmitRecord
    \/ TransmitDone
    \/ Advance
    \/ NoExport
SlowSpec == SlowInit /\ [][SlowNext]_vars

\* simulate runs in the caller's thread: once called, each of its steps is
\* taken (time.sleep returns, the loops are over finite lists).
SimulateSteps ==
    \/ LoopEnter \/ LoopExit \/ UpdateVehicle \/ UpdateDone \/ TransmitRecord
    \/ TransmitDone \/ Sleep \/ Advance \/ NoExport \/ ExportSkip \/ ExportLogs
\* The lifecycle of the system: registration and simulate calls.
LiveNext ==
    \/ \E vehicle_id \in {NextVehicleId}, speed \in InitSpeeds, behavior \in Behaviors :
          AddVehicle(vehicle_id, speed, behavior)
    \/ \E a \in SimulateArgs : SimulateStart(a[1], a[2], a[3])
    \/ SimulateSteps
LiveSpec == Init /\ [][LiveNext]_vars /\ WF_vars(SimulateSteps)

\* The system with its transponders read from outside between operations.
SnapNext ==
    \/ LiveNext
    \/ \E n \in DOMAIN transponders : Snapshot(n)
SnapSpec == Init /\ [][SnapNext]_vars

----------------------------------------------------------------------------
(* Properties.                                                             *)

NVehicles == Len(vehicles)
Running == pc # "idle"
\* The indices in data_log of the records the running simulate call appended.
ThisCall == (entry_len + 1) .. Len(data_log)
\* The tick (0, 1, ...) of the running call that appended record n, and the
\* place (1, 2, ...) of that record among the tick's records.
TickOf(n) == (n - entry_len - 1) \div NVehicles
PlaceOf(n) == ((n - entry_len - 1) % NVehicles) + 1
Events(kind) == {e \in DOMAIN tick_trace : tick_trace[e][1] = kind}

\* C1: with dt > 0 and duration > 0, a simulate call on n registered vehicles
\* runs exactly steps = floor(duration/dt) ticks and appends exactly steps * n
\* records: every finished tick has appended n records, and when the loop is
\* over the log holds steps * n records more than at entry (steps * n on a
\* fresh system).
C1_StepsAndLogLength ==
    /\ Running =>
          /\ duration > 0 /\ dt > 0
          /\ steps = duration \div dt
          /\ k <= steps
    /\ pc = "loop" => Len(data_log) = entry_len + k * NVehicles
    /\ pc = "complete" =>
          /\ k = steps
          /\ Len(data_log) = entry_len + steps * NVehicles
          /\ entry_len = 0 => Len(data_log) = steps * NVehicles

C1_Witness ==
    /\ pc = "complete"
    /\ entry_len = 0
    /\ duration % dt # 0
    /\ steps >= 2 /\ NVehicles >= 2
    /\ Len(data_log) = steps * NVehicles

\* C2: the clock of a simulate call is local: tick number t of the call
\* (t = 0 .. steps-1) stamps its records t*dt, so the first tick of every
\* call, a later call on the same system included, is stamped 0, and the
\* last tick (steps-1)*dt, which is not duration.
C2_LocalClock ==
    /\ Running => sim_time = k * dt
    /\ Running /\ NVehicles > 0 =>
          \A n \in ThisCall : data_log[n].time = TickOf(n) * dt
    /\ pc = "complete" /\ steps > 0 /\ NVehicles > 0 =>
          /\ data_log[entry_len + 1].time = 0
          /\ data_log[Len(data_log)].time = (steps - 1) * dt
          /\ data_log[Len(data_log)].time # duration

C2_Witness ==
    /\ pc = "complete"
    /\ entry_len > 0
    /\ steps >= 2 /\ NVehicles > 0
    /\ data_log[entry_len + 1].time = 0
    /\ data_log[entry_len].time > 0
    /\ data_log[Len(data_log)].time = (steps - 1) * dt

\* C3: failure isolation.  With a registered vehicle whose behavior raises on
\* every tick, every tick still updates every registered vehicle and appends
\* a record for every one of them, and simulate leaves its loop only after
\* all its steps ticks, returning normally.
HasFaulty == \E n \in DOMAIN vehicles : heap[vehicles[n]].behavior = "faulty"
TickIsWhole ==
    /\ \A n \in DOMAIN vehicles :
          /\ \E e \in Events("update") : tick_trace[e][2] = vehicles[n]
          /\ \E e \in Events("record") : tick_trace[e][2] = vehicles[n]
    /\ Len(data_log) = entry_len + (k + 1) * NVehicles
C3_FailureIsolation ==
    [][HasFaulty =>
          /\ (pc = "transmit" /\ pc' # "transmit") => TickIsWhole
          /\ (pc = "update" /\ pc' # "update") => pc' = "transmit"
          /\ (Running /\ pc' = "idle") => (pc = "complete" /\ k = steps)]_vars

C3_Witness ==
    /\ pc = "complete"
    /\ steps >= 2 /\ NVehicles >= 2
    /\ heap[vehicles[1]].behavior = "faulty"
    /\ heap[vehicles[2]].behavior = "none"
    /\ heap[vehicles[2]].position = steps * dt * heap[vehicles[2]].speed
    /\ Len(data_log) = entry_len + steps * NVehicles
    /\ data_log[Len(data_log)].vehicle_id = heap[vehicles[2]].vehicle_id

\* C4: the log is append-only: every step of add_vehicle, simulate, analyze
\* and export leaves the log as it was or extends it at the end, so the log
\* at an earlier moment is a prefix of the log at every later moment; a
\* repeated simulate call appends to the log it finds.
C4_AppendOnly == [][IsPrefix(data_log, data_log')]_vars

C4_Witness ==
    /\ pc = "idle"
    /\ n_calls >= 2
    /\ calls = data_log
    /\ files.json = data_log
    /\ Len(data_log) >= 2
    /\ data_log[1].time = 0
    /\ data_log[Len(data_log)].time = 0

\* C5: the records of one tick are in registration order (the i-th record of
\* the tick belongs to the i-th vehicle registered), and every record of an
\* earlier tick precedes every record of a later tick.
C5_RecordOrder ==
    Running /\ NVehicles > 0 =>
        /\ \A n \in ThisCall : data_log[n].vehicle_id = heap[PlaceOf(n)].vehicle_id
        /\ \A m, n \in ThisCall : data_log[m].time < data_log[n].time => m < n

C5_Witness ==
    /\ pc = "complete"
    /\ steps >= 2 /\ NVehicles >= 2
    /\ Len(data_log) = entry_len + steps * NVehicles
    /\ data_log[entry_len + 1].vehicle_id # data_log[entry_len + 2].vehicle_id

\* C6: analyze calls the callback exactly once for each record of the log, in
\* log order, whichever of the calls raise: the number of calls is the length
\* of the log, the n-th call gets the n-th record, and the log is left as it
\* was.
AnalyzeStep == pc = "idle" /\ pc' = "idle" /\ heap' = heap /\ snapshot' = <<>>
C6_AnalyzeScansAll ==
    [][AnalyzeStep =>
          /\ Len(calls') = Len(data_log)
          /\ \A n \in DOMAIN data_log : calls'[n] = data_log[n]
          /\ data_log' = data_log]_vars

C6_Witness ==
    /\ pc = "idle"
    /\ failed_at = 1
    /\ last_log = "Analysis callback error"
    /\ Len(data_log) >= 2
    /\ calls = data_log

\* C7, as amended: every record in the log has exactly the four fields
\* vehicle_id, speed, position and time, and time holds the sim_time of the
\* tick that produced the record.
RecordFields == {"vehicle_id", "speed", "position", "time"}
C7_RecordFields ==
    /\ \A n \in DOMAIN data_log : DOMAIN data_log[n] = RecordFields
    /\ pc = "transmit" =>
          \A n \in (Len(data_log) - i + 2) .. Len(data_log) : data_log[n].time = sim_time

C7_Witness ==
    /\ pc = "transmit"
    /\ i > NVehicles /\ NVehicles >= 2
    /\ sim_time > 0
    /\ data_log[Len(data_log)].time = sim_time

\* C7, as claimed: every record in the log has exactly the four fields
\* vehicle_id, speed, position and sim_time.
C7_SimTimeField ==
    \A n \in DOMAIN data_log :
        DOMAIN data_log[n] = {"vehicle_id", "speed", "position", "sim_time"}

\* C8: a tick changes a vehicle's position by exactly (speed/3600)*dt, with the
\* speed in force after that tick's behavior call, once per tick and without
\* clamping; nothing else changes a position, and a tick with a non-negative
\* speed does not decrease the position.
UpdateStepOf(o) == pc = "update" /\ i <= NVehicles /\ vehicles[i] = o /\ pc' = "update"
C8_PositionIntegration ==
    [][/\ \A o \in DOMAIN heap :
             LET delta == heap'[o].position - heap[o].position
             IN  IF UpdateStepOf(o)
                 THEN /\ delta * SecondsPerHour
                            = heap'[o].speed * dt * (PosScale \div (SpeedScale * TimeScale))
                      /\ heap'[o].speed >= 0 => delta >= 0
                 ELSE delta = 0
       /\ pc = "transmit" =>
             \A n \in DOMAIN vehicles :
                 Cardinality({e \in Events("update") : tick_trace[e][2] = vehicles[n]}) = 1
      ]_vars

C8_Witness ==
    /\ pc = "transmit"
    /\ k = 0
    /\ \E a, b \in DOMAIN heap :
          /\ heap[a].behavior = "none"
          /\ heap[a].position * SecondsPerHour
                 = heap[a].speed * dt * (PosScale \div (SpeedScale * TimeScale))
          /\ heap[a].position > 0
          /\ heap[b].behavior = "custom"
          /\ heap[b].speed < 0
          /\ heap[b].position < 0

\* C9: when simulate ends with persistence enabled and an empty log, the log
\* stays empty, the export is skipped with the warning "No data to export."
\* and the files are left as they were.
C9_EmptyExport ==
    [][pc = "complete" /\ write_log /\ data_log = <<>> =>
          /\ data_log' = <<>>
          /\ files' = files
          /\ last_log' = "No data to export."
          /\ pc' = "idle"]_vars

C9_Witness ==
    /\ pc = "idle"
    /\ write_log
    /\ vehicles = <<>>
    /\ n_calls > 0
    /\ data_log = <<>>
    /\ last_log = "No data to export."
    /\ files.json = OldLog

\* C10: in every state len(transponders) = len(vehicles) and transponder i is
\* bound to vehicle i; no step removes or reorders a registered vehicle or
\* transponder, so both lists only grow.
Registered ==
    /\ Len(transponders) = Len(vehicles)
    /\ \A n \in DOMAIN vehicles : transponders[n] = vehicles[n]
C10_Registration ==
    [][/\ Registered
       /\ Registered'
       /\ IsPrefix(vehicles, vehicles')
       /\ IsPrefix(transponders, transponders')]_vars

C10_Witness ==
    /\ pc = "idle"
    /\ Len(vehicles) = 2
    /\ Registered
    /\ n_calls > 0
    /\ heap[vehicles[1]].position # 0
    /\ heap[vehicles[2]].position = 0
    /\ data_log # <<>>

\* C11: a snapshot (transmit) is pure and idempotent: the call changes neither
\* the vehicle's speed or position nor the log, the record it returns is the
\* record a second call made right after it returns, and two calls in a row
\* on the same transponder return identical records.
SnapshotStep == snapshot' # <<>> /\ snapshot' # snapshot
C11_SnapshotPure ==
    [][SnapshotStep =>
          /\ heap' = heap
          /\ data_log' = data_log
          /\ snapshot'[2] = Transmit(heap'[transponders[snapshot'[1]]])
          /\ DOMAIN snapshot'[2] = {"vehicle_id", "speed", "position"}
          /\ (snapshot # <<>> /\ snapshot[1] = snapshot'[1]) => snapshot'[2] = snapshot[2]
      ]_vars

C11_Witness ==
    /\ pc = "idle"
    /\ snapshot # <<>>
    /\ data_log # <<>>
    /\ LET v == heap[transponders[snapshot[1]]]
       IN  /\ snapshot[2].vehicle_id = v.vehicle_id
           /\ snapshot[2].position * (PosScale \div Pow10(PositionDigits)) # v.position
           /\ v.position # 0

\* C12: the system is Idle or Running. A simulate call takes it from Idle to
\* Running and it eventually returns to Idle, after exactly steps ticks; ticks
\* (vehicle updates, log appends, clock advances) happen only while Running,
\* and from Idle a further simulate call can always be started (the model
\* stops counting at MaxCalls calls).
TickEffect ==
    \/ data_log' # data_log
    \/ \E o \in DOMAIN heap : heap'[o] # heap[o]
    \/ k' # k
    \/ (sim_time' # sim_time /\ Running')
C12_Lifecycle ==
    /\ [][/\ (~Running /\ Running') => (pc' = "loop" /\ k' = 0 /\ sim_time' = 0)
          /\ (Running /\ ~Running') =>
                (pc = "complete" /\ k = steps /\ Len(data_log) = entry_len + steps * NVehicles)
          /\ TickEffect => Running
          /\ k' # k /\ Running' => (k' = k + 1 /\ k' <= steps)
         ]_vars
    /\ [](~Running /\ n_calls < MaxCalls =>
             \E a \in SimulateArgs : ENABLED SimulateStart(a[1], a[2], a[3]))
    /\ (Running ~> ~Running)

C12_Witness ==
    /\ ~Running
    /\ n_calls = 2
    /\ Len(data_log) = 4
    /\ \E n \in DOMAIN data_log : data_log[n].time > 0

\* C13 (as amended): within a tick update is called on every vehicle, in
\* registration order, before any snapshot is taken; then one record per
\* transponder is appended, in registration order. So with two vehicles or
\* more, vehicle i + 1's behavior runs before vehicle i's record is appended.
TickPlan ==
    [e \in 1 .. 2 * NVehicles |->
        IF e <= NVehicles THEN <<"update", vehicles[e]>>
                          ELSE <<"record", transponders[e - NVehicles]>>]
C13_UpdatesThenRecords ==
    Running =>
        /\ IsPrefix(tick_trace, TickPlan)
        /\ pc = "transmit" => Len(tick_trace) = NVehicles + i - 1
        /\ pc = "update" => Len(tick_trace) = i - 1
        /\ pc \in {"sleep", "advance"} => tick_trace = TickPlan

C13_Witness ==
    /\ pc = "transmit"
    /\ NVehicles = 2
    /\ tick_trace = <<<<"update", vehicles[1]>>, <<"update", vehicles[2]>>,
                      <<"record", transponders[1]>>>>
    /\ Len(data_log) = entry_len + k * NVehicles + 1

\* C13 (as stated): vehicles are processed one at a time: vehicle i's record
\* is appended before vehicle i + 1's update is called.
C13_OneVehicleAtATime ==
    \A e, f \in DOMAIN tick_trace :
        (/\ tick_trace[e][1] = "record"
         /\ tick_trace[f][1] = "update"
         /\ \E n \in DOMAIN vehicles :
               /\ n + 1 \in DOMAIN vehicles
               /\ tick_trace[e][2] = vehicles[n]
               /\ tick_trace[f][2] = vehicles[n + 1])
        => e < f

\* C14: when a vehicle's behavior raises during update, the exception is
\* caught (a warning is logged and the update loop goes on) and the position
\* is integrated in that same step with the speed the vehicle holds at that
\* moment: the speed the behavior had set before raising, or the previous
\* speed if it had set none.
RaisingUpdate ==
    /\ pc = "update" /\ i <= NVehicles
    /\ heap[vehicles[i]].behavior = "faulty"
C14_RaiseThenIntegrate ==
    [][RaisingUpdate =>
          LET old == heap[vehicles[i]]
              new == heap'[vehicles[i]]
          IN  /\ pc' = "update" /\ i' = i + 1
              /\ last_log' = "Behavior error"
              /\ new.speed \in {old.speed} \cup BehaviorSpeeds
              /\ new.position = old.position + new.speed * dt
              /\ new.speed # old.speed => new.position # old.position + old.speed * dt
      ]_vars

C14_Witness ==
    /\ pc = "transmit" /\ k = 0
    /\ NVehicles = 2
    /\ \A n \in DOMAIN vehicles : heap[vehicles[n]].behavior = "faulty"
    /\ heap[vehicles[1]].speed \in BehaviorSpeeds
    /\ heap[vehicles[1]].position = heap[vehicles[1]].speed * dt
    /\ heap[vehicles[2]].speed \in InitSpeeds
    /\ heap[vehicles[2]].position = heap[vehicles[2]].speed * dt
    /\ last_log = "Behavior error"

\* C15: an export is attempted (a file is written, or one of _export_logs's
\* messages is logged) only as the last step of a simulate call, when its
\* last tick has appended its records, and only with write_log set: never
\* during or between ticks, in add_vehicle or analyze, and never at all when
\* write_log is not set.
ExportMessages == {"No data to export.", "Data log written to JSON"}
ExportAttempt ==
    \/ files' # files
    \/ (last_log' # last_log /\ last_log' \in ExportMessages)
C15_ExportOnlyAtEnd ==
    [][/\ ExportAttempt =>
             /\ write_log
             /\ pc = "complete" /\ pc' = "idle"
             /\ k = steps
             /\ Len(data_log) = entry_len + steps * NVehicles
             /\ data_log' = data_log
       /\ ~write_log' =>
             /\ files' = [csv |-> CsvOf(OldLog), json |-> JsonOf(OldLog)]
             /\ last_log' \notin ExportMessages
      ]_vars

C15_Witness ==
    /\ pc = "idle"
    /\ write_log
    /\ last_log = "Data log written to JSON"
    /\ files.json = data_log
    /\ Len(data_log) = 4
    /\ data_log[4].time > 0

\* C16: random_slowdown changes the speed only on ticks where
\* floor(sim_time) % 10 = 0 and sim_time > 0 (never at sim_time 0, and not on
\* any other tick); on such a tick the new speed is max(0, old + offset) with
\* offset within [-5, +5] km/h, so it is never negative.
SlowdownUpdate ==
    /\ pc = "update" /\ i <= NVehicles
    /\ heap[vehicles[i]].behavior = "random_slowdown"
SlowdownTick == (sim_time \div TimeScale) % SlowdownPeriod = 0 /\ sim_time > 0
C16_SlowdownGate ==
    [][SlowdownUpdate =>
          LET old == heap[vehicles[i]].speed
              new == heap'[vehicles[i]].speed
          IN  /\ new # old => SlowdownTick
              /\ ~SlowdownTick => new = old
              /\ sim_time = 0 => new = old
              /\ SlowdownTick =>
                    \E offset \in (0 - MaxChange * SpeedScale) .. (MaxChange * SpeedScale) :
                        new = IF old + offset >= 0 THEN old + offset ELSE 0
              /\ new >= 0
      ]_vars

C16_Witness ==
    /\ pc = "transmit"
    /\ sim_time = SlowdownPeriod * TimeScale
    /\ NVehicles = 1
    /\ heap[vehicles[1]].behavior = "random_slowdown"
    /\ heap[vehicles[1]].speed = 0
    /\ \A n \in DOMAIN data_log : data_log[n].speed > 0

\* C17: random_slowdown adjusts the speed every 10 seconds of sim_time: with
\* any dt > 0 the ticks on which it changes the speed are at sim_time 10, 20,
\* 30, ... seconds, so at most one per 10 simulated seconds and none before
\* sim_time 10.
C17_EveryTenSeconds ==
    [][SlowdownUpdate /\ heap'[vehicles[i]].speed # heap[vehicles[i]].speed =>
          /\ sim_time > 0
          /\ sim_time % (SlowdownPeriod * TimeScale) = 0
      ]_vars

\* C18 (as amended): with realtime set, simulate sleeps dt seconds after
\* every tick, the last one included (steps sleeps for steps ticks: the clock
\* of a tick advances only after its sleep); without realtime it never
\* sleeps; the sleep changes neither the log, the vehicles nor sim_time.
C18_SleepAfterEveryTick ==
    [][/\ (pc = "transmit" /\ pc' # "transmit") =>
             pc' = IF realtime THEN "sleep" ELSE "advance"
       /\ (pc' = "advance" /\ pc # "advance" /\ realtime) => pc = "sleep"
       /\ (pc = "advance" /\ pc' # "advance") => (k' = k + 1 /\ k' <= steps)
       /\ pc' = "sleep" => (realtime' /\ tick_trace' = TickPlan')
       /\ pc = "sleep" =>
             /\ pc' = "advance"
             /\ data_log' = data_log
             /\ heap' = heap
             /\ sim_time' = sim_time
             /\ k' = k
      ]_vars

C18_Witness ==
    /\ pc = "sleep"
    /\ realtime
    /\ steps >= 2
    /\ k + 1 = steps
    /\ Len(data_log) = entry_len + steps * NVehicles

\* C18 (as stated): every pacing sleep is followed by another tick of the
\* same call: there is no sleep after the last tick.
C18_SleepBetweenTicks == pc = "sleep" => k + 1 < steps

\* C19: simulate does not reset the vehicles: the call starts its clock at 0
\* and leaves every vehicle's speed and position as the previous call left
\* them, and returning changes them no more. So the log of two calls can hold
\* two records with the same vehicle_id and the same time but different
\* positions, and its time field can decrease.
C19_VehiclesCarryOver ==
    [][/\ (~Running /\ Running') =>
             /\ heap' = heap
             /\ sim_time' = 0
             /\ entry_len' = Len(data_log)
             /\ data_log' = data_log
       /\ (Running /\ ~Running') => (heap' = heap /\ data_log' = data_log)
       /\ (pc = "transmit" /\ i <= NVehicles /\ k = 0) =>
             /\ data_log'[Len(data_log')].time = 0
             /\ data_log'[Len(data_log')].position
                   = Transmit(heap[transponders[i]]).position
      ]_vars

C19_Witness ==
    /\ ~Running
    /\ n_calls = 2
    /\ \E m, n \in DOMAIN data_log :
          /\ m < n
          /\ data_log[m].vehicle_id = data_log[n].vehicle_id
          /\ data_log[m].time = data_log[n].time
          /\ data_log[m].position # data_log[n].position
    /\ \E n \in DOMAIN data_log :
          /\ n + 1 \in DOMAIN data_log
          /\ data_log[n].time > data_log[n + 1].time

\* C20: the export at the end of a simulate call looks at the whole log, not
\* at what the call appended: with write_log set it is skipped exactly when
\* the whole log is empty, and otherwise both files are overwritten with the
\* full log from construction onwards, also when the call ran no tick.
C20_ExportsWholeLog ==
    [][pc = "complete" /\ write_log =>
          /\ pc' = "idle"
          /\ data_log' = data_log
          /\ IF data_log = <<>>
             THEN files' = files /\ last_log' = "No data to export."
             ELSE /\ last_log' = "Data log written to JSON"
                  /\ files'.json = data_log
                  /\ Len(files'.json) = entry_len + steps * NVehicles
                  /\ DOMAIN files'.csv.rows = DOMAIN data_log
                  /\ \A n \in DOMAIN data_log :
                        files'.csv.rows[n] = <<data_log[n].vehicle_id, data_log[n].speed,
                                               data_log[n].position, data_log[n].time>>
      ]_vars

C20_Witness ==
    /\ pc = "complete"
    /\ write_log
    /\ steps = 0
    /\ n_calls = 2
    /\ entry_len = Len(data_log)
    /\ Len(data_log) >= 2
    /\ files.json = data_log

====
